---- MODULE Spec2Model ----
(***************************************************************************)
(* Model of main.py: a FastAPI facade in front of an Ollama chat backend.  *)
(* Texts are TLA+ strings handled character by character (Len, SubSeq and  *)
(* \o on strings), so the brace extraction and the JSON parse are computed *)
(* on the characters the code sees.                                        *)
(***************************************************************************)
EXTENDS Integers, Sequences, FiniteSets, TLC

\* ------------------------------------------------------------------------
\* Optional values: None, or a one-element sequence holding the value.
\* ------------------------------------------------------------------------
None == <<>>
Some(v) == <<v>>
IsNone(o) == Len(o) = 0
Val(o) == o[1]

\* ------------------------------------------------------------------------
\* Characters
\* ------------------------------------------------------------------------
\* s[i] of Python, "" past either end.
Ch(s, i) == IF i >= 1 /\ i <= Len(s) THEN SubSeq(s, i, i) ELSE ""

\* s[i:] of Python (i is 1-based here).
From(s, i) == SubSeq(s, i, Len(s))

StartsWith(s, i, lit) ==
    /\ i + Len(lit) - 1 <= Len(s)
    /\ SubSeq(s, i, i + Len(lit) - 1) = lit

UpperAlphabet == "ABCDEFGHIJKLMNOPQRSTUVWXYZ"
LowerAlphabet == "abcdefghijklmnopqrstuvwxyz"

LowerCh(c) ==
    IF \E i \in 1..Len(UpperAlphabet) : Ch(UpperAlphabet, i) = c
    THEN Ch(LowerAlphabet, CHOOSE i \in 1..Len(UpperAlphabet) : Ch(UpperAlphabet, i) = c)
    ELSE c

RECURSIVE Lower(_)
\* str.lower()
Lower(s) == IF Len(s) = 0 THEN "" ELSE LowerCh(Ch(s, 1)) \o Lower(From(s, 2))

\* The whitespace str.strip() removes (the representable part of it).
StripSpace == {" ", "\t", "\n", "\r", "\f"}

RECURSIVE LStrip(_)
LStrip(s) == IF Len(s) > 0 /\ Ch(s, 1) \in StripSpace THEN LStrip(From(s, 2)) ELSE s

RECURSIVE RStrip(_)
RStrip(s) ==
    IF Len(s) > 0 /\ Ch(s, Len(s)) \in StripSpace
    THEN RStrip(SubSeq(s, 1, Len(s) - 1))
    ELSE s

\* str.strip()
Strip(s) == RStrip(LStrip(s))

\* ------------------------------------------------------------------------
\* _extract_json: re.search(r"\{.*\}", text, flags=re.S)
\* ------------------------------------------------------------------------
\* The positions at which the pattern can match: a "{" with a "}" after it.
MatchStarts(text) ==
    {i \in 1..Len(text) :
        /\ Ch(text, i) = "{"
        /\ \E j \in (i + 1)..Len(text) : Ch(text, j) = "}"}

MinOf(S) == CHOOSE x \in S : \A y \in S : x <= y
MaxOf(S) == CHOOSE x \in S : \A y \in S : x >= y

\* ".*" with re.S is greedy over every character: the match ends at the last
\* "}" after the start.
GreedyEnd(text, i) == MaxOf({j \in (i + 1)..Len(text) : Ch(text, j) = "}"})

\* A non-greedy ".*?" would end at the first "}" after the start.
LazyEnd(text, i) == MinOf({j \in (i + 1)..Len(text) : Ch(text, j) = "}"})

MatchEnd(text, i) == GreedyEnd(text, i)

\* A variant that returns only the text inside the braces.
ExtractInner(text) ==
    IF MatchStarts(text) = {}
    THEN text
    ELSE LET i == MinOf(MatchStarts(text))
         IN SubSeq(text, i + 1, MatchEnd(text, i) - 1)

\* re.search returns the leftmost match; without one the text itself.
_extract_json(text) ==
    IF MatchStarts(text) = {}
    THEN text
    ELSE LET i == MinOf(MatchStarts(text))
         IN SubSeq(text, i, MatchEnd(text, i))

\* ------------------------------------------------------------------------
\* json.loads
\* ------------------------------------------------------------------------
\* A parsed JSON value: kind in str, num, null, true, false, list, obj;
\* str holds a string's text or a number's lexeme; items holds a list's
\* elements or an object's members (records [k, v], in source order).
JVal(kind, str, items) == [kind |-> kind, str |-> str, items |-> items]

\* A scan result: ok, the position after what was scanned, the value.
Scanned(pos, val) == [ok |-> TRUE, pos |-> pos, val |-> val]
ScanFail == [ok |-> FALSE, pos |-> 0, val |-> JVal("none", "", <<>>)]

JsonSpace == {" ", "\t", "\n", "\r"}
DigitChars == {"0", "1", "2", "3", "4", "5", "6", "7", "8", "9"}
HexChars == DigitChars \cup {"a", "b", "c", "d", "e", "f", "A", "B", "C", "D", "E", "F"}
ControlChars == {"\t", "\n", "\r", "\f"}

RECURSIVE SkipWs(_, _)
SkipWs(s, i) == IF Ch(s, i) \in JsonSpace THEN SkipWs(s, i + 1) ELSE i

RECURSIVE SkipDigits(_, _)
SkipDigits(s, i) == IF Ch(s, i) \in DigitChars THEN SkipDigits(s, i + 1) ELSE i

\* The character a one-letter escape stands for.
Unescape(e) ==
    CASE e = "n" -> "\n"
      [] e = "t" -> "\t"
      [] e = "r" -> "\r"
      [] e = "f" -> "\f"
      [] e = "b" -> "\\b"   \* backspace has no literal here: kept as written
      [] OTHER -> e

RECURSIVE ScanString(_, _, _)
\* py_scanstring, strict: i is the position after the opening quote.  A
\* \uXXXX escape is kept as written (its code point has no name here).
ScanString(s, i, acc) ==
    LET c == Ch(s, i)
        e == Ch(s, i + 1)
    IN  IF c = "" THEN ScanFail
        ELSE IF c = "\"" THEN Scanned(i + 1, JVal("str", acc, <<>>))
        ELSE IF c \in ControlChars THEN ScanFail
        ELSE IF c # "\\" THEN ScanString(s, i + 1, acc \o c)
        ELSE IF e \in {"\"", "\\", "/", "b", "f", "n", "r", "t"}
             THEN ScanString(s, i + 2, acc \o Unescape(e))
        ELSE IF e = "u" /\ \A k \in 2..5 : Ch(s, i + k) \in HexChars
             THEN ScanString(s, i + 6, acc \o SubSeq(s, i, i + 5))
        ELSE ScanFail

\* NUMBER_RE.match: -?(0|[1-9]\d*)(\.\d+)?([eE][-+]?\d+)?  The position after
\* the longest match at i, or 0 without a match.
NumberEnd(s, i) ==
    LET a == IF Ch(s, i) = "-" THEN i + 1 ELSE i
        b == IF Ch(s, a) = "0" THEN a + 1 ELSE SkipDigits(s, a)
        f == SkipDigits(s, b + 1)
        c == IF Ch(s, b) = "." /\ f > b + 1 THEN f ELSE b
        x == IF Ch(s, c + 1) \in {"+", "-"} THEN c + 2 ELSE c + 1
        g == SkipDigits(s, x)
        d == IF Ch(s, c) \in {"e", "E"} /\ g > x THEN g ELSE c
    IN  IF Ch(s, a) \in DigitChars THEN d ELSE 0

RECURSIVE ScanValue(_, _)
RECURSIVE ScanMembers(_, _, _)
RECURSIVE ScanElements(_, _, _)

\* JSONObject after the first member's opening position: i is where a key's
\* quote is expected.
ScanMembers(s, i, acc) ==
    IF Ch(s, i) # "\"" THEN ScanFail
    ELSE LET k == ScanString(s, i + 1, "")
         IN  IF ~k.ok THEN ScanFail
             ELSE LET j == SkipWs(s, k.pos)
                  IN  IF Ch(s, j) # ":" THEN ScanFail
                      ELSE LET v == ScanValue(s, SkipWs(s, j + 1))
                           IN  IF ~v.ok THEN ScanFail
                               ELSE LET e == SkipWs(s, v.pos)
                                        all == Append(acc, [k |-> k.val.str, v |-> v.val])
                                    IN  IF Ch(s, e) = "}"
                                        THEN Scanned(e + 1, JVal("obj", "", all))
                                        ELSE IF Ch(s, e) = ","
                                        THEN ScanMembers(s, SkipWs(s, e + 1), all)
                                        ELSE ScanFail

\* JSONArray: i is where an element starts.
ScanElements(s, i, acc) ==
    LET v == ScanValue(s, i)
    IN  IF ~v.ok THEN ScanFail
        ELSE LET e == SkipWs(s, v.pos)
                 all == Append(acc, v.val)
             IN  IF Ch(s, e) = "]"
                 THEN Scanned(e + 1, JVal("list", "", all))
                 ELSE IF Ch(s, e) = ","
                 THEN ScanElements(s, SkipWs(s, e + 1), all)
                 ELSE ScanFail

\* scan_once
ScanValue(s, i) ==
    LET c == Ch(s, i)
    IN  IF c = "\"" THEN ScanString(s, i + 1, "")
        ELSE IF c = "{"
             THEN LET j == SkipWs(s, i + 1)
                  IN  IF Ch(s, j) = "}"
                      THEN Scanned(j + 1, JVal("obj", "", <<>>))
                      ELSE ScanMembers(s, j, <<>>)
        ELSE IF c = "["
             THEN LET j == SkipWs(s, i + 1)
                  IN  IF Ch(s, j) = "]"
                      THEN Scanned(j + 1, JVal("list", "", <<>>))
                      ELSE ScanElements(s, j, <<>>)
        ELSE IF StartsWith(s, i, "null") THEN Scanned(i + 4, JVal("null", "", <<>>))
        ELSE IF StartsWith(s, i, "true") THEN Scanned(i + 4, JVal("true", "", <<>>))
        ELSE IF StartsWith(s, i, "false") THEN Scanned(i + 5, JVal("false", "", <<>>))
        ELSE IF NumberEnd(s, i) > 0
             THEN Scanned(NumberEnd(s, i),
                          JVal("num", SubSeq(s, i, NumberEnd(s, i) - 1), <<>>))
        ELSE IF StartsWith(s, i, "NaN") THEN Scanned(i + 3, JVal("num", "NaN", <<>>))
        ELSE IF StartsWith(s, i, "Infinity")
             THEN Scanned(i + 8, JVal("num", "Infinity", <<>>))
        ELSE IF StartsWith(s, i, "-Infinity")
             THEN Scanned(i + 9, JVal("num", "-Infinity", <<>>))
        ELSE ScanFail

\* JSONDecoder.decode: one value, whitespace around it, nothing after it.
json_loads(s) ==
    LET r == ScanValue(s, SkipWs(s, 1))
    IN  IF r.ok /\ SkipWs(s, r.pos) = Len(s) + 1 THEN r ELSE ScanFail

\* dict(pairs): the value of the last member with key k.
HasKey(obj, k) == \E i \in 1..Len(obj.items) : obj.items[i].k = k
GetKey(obj, k) ==
    obj.items[MaxOf({i \in 1..Len(obj.items) : obj.items[i].k = k})].v

\* ------------------------------------------------------------------------
\* Configuration, prompts and schemas
\* ------------------------------------------------------------------------
OLLAMA_BASE_URL == "http://127.0.0.1:11434"
DEFAULT_MODEL == "qwen2:7b"

\* The three system prompts, by their opening words.
SYSTEM_THAI == "SYSTEM_THAI: reply with one JSON, summary in Thai, language th"
SYSTEM_EN == "SYSTEM_EN: You are a text analysis system."
SYSTEM_AUTO == "SYSTEM_AUTO: You are a multilingual text analysis system."

Role == {"system", "user", "assistant"}
DefaultTemperature == "0.2"
AnalyzeTemperature == "0.1"
SchemaLanguages == {"th", "en", "auto", "multi"}
\* A category literal that also admits "urgent".
CategoriesWithUrgent == {"general", "complaint", "request", "other", "urgent"}

Categories == {"general", "complaint", "request", "other"}
Urgencies == {"low", "medium", "high"}
SnippetLen == 200

\* A language gate that lets the schema's fourth value through.
AcceptedWithMulti == {"th", "en", "auto", "multi"}

\* The set of _analyze_once's language check.
AcceptedLanguages == {"th", "en", "auto"}

\* x or d, for an optional string x: None and "" are falsy.
OrElse(o, d) == IF IsNone(o) \/ Val(o) = "" THEN d ELSE Val(o)

\* A selector that sends unrecognized codes to the English prompt.
PickDefaultEnglish(lang) ==
    IF lang = "th" THEN SYSTEM_THAI
    ELSE IF lang \in {"auto", "multi"} THEN SYSTEM_AUTO
    ELSE SYSTEM_EN

_pick_system_msg(lang) ==
    IF lang = "th" THEN SYSTEM_THAI
    ELSE IF lang = "en" THEN SYSTEM_EN
    ELSE IF lang = "multi" THEN SYSTEM_AUTO
    ELSE SYSTEM_AUTO

\* A normalisation that lowercases without the "auto" default.
NormNoDefault(language) == Lower(language)

\* (language or "auto").lower()
NormLanguage(language) == Lower(IF language = "" THEN "auto" ELSE language)

\* AnalyzeResult(**obj): obj must be a mapping with the four fields, summary
\* and language strings, category and urgency one of their literals; other
\* keys are ignored.
Fits(v) ==
    /\ v.kind = "obj"
    /\ \A f \in {"summary", "category", "urgency", "language"} :
          HasKey(v, f) /\ GetKey(v, f).kind = "str"
    /\ GetKey(v, "category").str \in Categories
    /\ GetKey(v, "urgency").str \in Urgencies

AnalyzeResult(summary, category, urgency, language) ==
    [summary |-> summary, category |-> category, urgency |-> urgency,
     language |-> language]

NoResult == AnalyzeResult("", "", "", "")

ResultOf(v) ==
    AnalyzeResult(GetKey(v, "summary").str, GetKey(v, "category").str,
                  GetKey(v, "urgency").str, GetKey(v, "language").str)

\* raw[:200]
Snippet(raw) == SubSeq(raw, 1, IF Len(raw) < SnippetLen THEN Len(raw) ELSE SnippetLen)

\* ------------------------------------------------------------------------
\* Requests, payloads, backend answers, responses
\* ------------------------------------------------------------------------
Req(route, text, language, model, messages, temperature, options) ==
    [route |-> route, text |-> text, language |-> language, model |-> model,
     messages |-> messages, temperature |-> temperature, options |-> options]

NoReq == Req("none", "", "", None, <<>>, None, None)

ChatMessage(role, content) == [role |-> role, content |-> content]

\* m.model_dump()
ModelDump(m) == [role |-> m.role, content |-> m.content]

Payload(model, messages, options) ==
    [path |-> "/api/chat", model |-> model, messages |-> messages,
     stream |-> FALSE, options |-> options]

\* A dict is a sequence of <<key, value>> pairs; {} is the empty sequence.
TemperatureDict(t) == << <<"temperature", t>> >>

\* A chat payload that leaves the system messages out.
ChatPayloadNoSystem(r) ==
    Payload(OrElse(r.model, DEFAULT_MODEL),
            SelectSeq([i \in 1..Len(r.messages) |-> ModelDump(r.messages[i])],
                      LAMBDA m : m.role # "system"),
            IF IsNone(r.options) \/ Val(r.options) = <<>>
            THEN TemperatureDict(r.temperature)
            ELSE Val(r.options))

ChatPayload(r) ==
    Payload(OrElse(r.model, DEFAULT_MODEL),
            [i \in 1..Len(r.messages) |-> ModelDump(r.messages[i])],
            IF IsNone(r.options) \/ Val(r.options) = <<>>
            THEN TemperatureDict(r.temperature)
            ELSE Val(r.options))

AnalyzePayload(text, language, model) ==
    Payload(OrElse(model, DEFAULT_MODEL),
            <<[role |-> "system", content |-> _pick_system_msg(language)],
              [role |-> "user", content |-> text]>>,
            TemperatureDict(Some(AnalyzeTemperature)))

\* The backend's JSON body: message is None or Some(content), content None or
\* Some(string); the three counters None or Some(number).
Data(message, total_duration, eval_count, prompt_eval_count) ==
    [message |-> message, total_duration |-> total_duration,
     eval_count |-> eval_count, prompt_eval_count |-> prompt_eval_count]

NoData == Data(None, None, None, None)

\* What requests.post did: kind "exception" (why: refused or timeout), or
\* "response" with its status, whether its body is JSON, and the body.
Got(kind, why, status, json, data) ==
    [kind |-> kind, why |-> why, status |-> status, json |-> json, data |-> data]

NoGot == Got("none", "", 0, FALSE, NoData)

\* (data.get("message") or {}).get("content", "")
MessageContent(data) ==
    IF IsNone(data.message) \/ IsNone(Val(data.message)) THEN ""
    ELSE Val(Val(data.message))

Resp(kind, status, detail, body) ==
    [kind |-> kind, status |-> status, detail |-> detail, body |-> body]

NoResp == Resp("none", 0, "", "")

\* raise HTTPException(status_code, detail): detail is the message's fixed
\* part; body carries the diagnostic snippet when there is one.
HTTPException(status, detail, snippet) == Resp("error", status, detail, snippet)

\* FastAPI's answer to a request that fails its declared schema.
RequestValidationError == Resp("error", 422, "request validation", "")

\* An exception no handler catches.
InternalServerError == Resp("error", 500, "Internal Server Error", "")

GateDetail == "language must be one of: th | en | auto"

\* _post_ollama without the status check.
PostUnchecked(g) ==
    IF g.kind = "exception"
    THEN [raised |-> TRUE, resp |-> HTTPException(502, "Ollama unreachable", g.why)]
    ELSE IF ~g.json
    THEN [raised |-> TRUE, resp |-> InternalServerError]
    ELSE [raised |-> FALSE, data |-> g.data]

\* _post_ollama, from what requests.post did.
_post_ollama(g) ==
    IF g.kind = "exception"
    THEN [raised |-> TRUE, resp |-> HTTPException(502, "Ollama unreachable", g.why)]
    ELSE IF g.status >= 400
    THEN [raised |-> TRUE, resp |-> HTTPException(502, "Ollama error", "")]
    ELSE IF ~g.json
    THEN [raised |-> TRUE, resp |-> InternalServerError]
    ELSE [raised |-> FALSE, data |-> g.data]

Locals(language, raw, json_text, parsed) ==
    [language |-> language, raw |-> raw, json_text |-> json_text, parsed |-> parsed]

NoLocals == Locals("", "", "", FALSE)

Coerced(json_text, parsed, ok, detail, result) ==
    [json_text |-> json_text, parsed |-> parsed, ok |-> ok, detail |-> detail,
     result |-> result]

\* The validation without its try/except: a failure is an unhandled error.
ValidateUnguarded(json_text, v) ==
    IF ~Fits(v)
    THEN Coerced(json_text, TRUE, FALSE, "Internal Server Error", NoResult)
    ELSE Coerced(json_text, TRUE, TRUE, "", ResultOf(v))

\* AnalyzeResult(**obj) in its try/except.
Validate(json_text, v) ==
    IF ~Fits(v)
    THEN Coerced(json_text, TRUE, FALSE, "JSON shape mismatch", NoResult)
    ELSE Coerced(json_text, TRUE, TRUE, "", ResultOf(v))

\* json.loads(json_text) in its try/except, then the validation.
Parse(json_text, p) ==
    IF ~p.ok
    THEN Coerced(json_text, FALSE, FALSE, "Model returned invalid JSON", NoResult)
    ELSE Validate(json_text, p.val)

Load(json_text) == Parse(json_text, json_loads(json_text))

\* _analyze_once from the extraction on: extract, parse, validate.
Coerce(raw) == Load(_extract_json(raw))

\* chat, after the backend call.
ChatResp(r, data) ==
    Resp("chat", 200, "",
         [model |-> OrElse(r.model, DEFAULT_MODEL),
          reply |-> MessageContent(data),
          stats |-> [total_duration_ns |-> data.total_duration,
                     eval_count |-> data.eval_count,
                     prompt_eval_count |-> data.prompt_eval_count]])

\* analyze / analyze_get, after the backend call.
AnalyzeResp(r, raw, c) ==
    IF c.ok
    THEN Resp("analyze", 200, "",
              [model |-> OrElse(r.model, DEFAULT_MODEL), result |-> c.result])
    ELSE HTTPException(500, c.detail, Snippet(raw))

\* ------------------------------------------------------------------------
\* Bounds and input sets
\* ------------------------------------------------------------------------
NumSlots == 2      \* requests the server handles at once
MaxTextLen == 4    \* length of the exhaustively enumerated replies
MaxLangLen == 2    \* length of the exhaustively enumerated language codes
MaxMsgs == 2       \* messages in a chat request

Slots == 1..NumSlots

RECURSIVE StringsUpTo(_, _)
StringsUpTo(alphabet, n) ==
    IF n = 0 THEN {""}
    ELSE LET P == StringsUpTo(alphabet, n - 1)
         IN  P \cup {s \o c : s \in P, c \in alphabet}

RECURSIVE SeqsUpTo(_, _)
SeqsUpTo(S, n) ==
    IF n = 0 THEN {<<>>}
    ELSE LET P == SeqsUpTo(S, n - 1)
         IN  P \cup {Append(q, e) : q \in P, e \in S}

\* Language codes a caller may send.
LangSamples ==
    {"auto", "multi", "AUTO", "Auto", "En", "MULTI", "ja", "th ", "english"}
LangInputs == StringsUpTo({"t", "h", "e", "n", "T", "x"}, MaxLangLen) \cup LangSamples

\* Model replies: every short text over braces, quote, digit and newline,
\* some JSON values without braces, and objects wrapped in commentary.
ShortTexts == StringsUpTo({"{", "}", "\"", "1", "\n"}, MaxTextLen)
ScalarTexts ==
    {"null", "true", "[1, 2]", "[]", "NaN", "-1.5e3", "\"quoted\"", "Sorry, no.",
     "[1,]", " 12 "}

Q(s) == "\"" \o s \o "\""

RECURSIVE Join(_, _)
Join(parts, sep) ==
    IF Len(parts) = 0 THEN ""
    ELSE IF Len(parts) = 1 THEN parts[1]
    ELSE parts[1] \o sep \o Join(Tail(parts), sep)

\* The members of an object text: f maps each field to None (left out) or
\* Some(the value's JSON text).
Members(f, order, colon) ==
    LET present == SelectSeq(order, LAMBDA k : ~IsNone(f[k]))
    IN  [i \in 1..Len(present) |-> Q(present[i]) \o colon \o Val(f[present[i]])]

FieldOrder == <<"summary", "category", "urgency", "language">>
ReverseOrder == <<"language", "urgency", "category", "summary">>
Styles == {"compact", "pretty", "extra"}

\* An object's text, written three ways.
Render(f, style) ==
    CASE style = "compact" -> "{" \o Join(Members(f, FieldOrder, ":"), ",") \o "}"
      [] style = "pretty" ->
            "{\n  " \o Join(Members(f, FieldOrder, ": "), ",\n  ") \o "\n}"
      [] style = "extra" ->
            "{" \o Join(<<"\"meta\": {\"n\": [1, {}]}">>
                        \o Members(f, ReverseOrder, " : "), ", ") \o " }"

Fields(summary, category, urgency, language) ==
    [summary |-> summary, category |-> category, urgency |-> urgency,
     language |-> language]

Prefixes == {"", "Sure! ", "Here you go:\n"}
Suffixes == {"", " thanks", "\n\nHope it helps."}
Summaries == {"ok", "a}b{c"}
ResultLanguages == {"en", "ja"}

\* Replies that embed an object fitting AnalyzeResult, with its fields.
GoodReplies ==
    {[content |-> p \o Render(Fields(Some(Q(su)), Some(Q(c)), Some(Q(u)), Some(Q(l))), st) \o x,
      result |-> AnalyzeResult(su, c, u, l)] :
        p \in Prefixes, x \in Suffixes, st \in Styles,
        su \in Summaries, c \in Categories, u \in Urgencies, l \in ResultLanguages}

BaseFields == Fields(Some(Q("ok")), Some(Q("general")), Some(Q("low")), Some(Q("en")))

\* Fields of objects that are valid JSON but not an AnalyzeResult: a required
\* key left out, a category or an urgency outside its literals.
BadFields ==
    {[BaseFields EXCEPT ![k] = None] : k \in {"summary", "category", "urgency", "language"}}
    \cup {[BaseFields EXCEPT !.category = Some(Q(c))] : c \in {"urgent", "General"}}
    \cup {[BaseFields EXCEPT !.urgency = Some(Q(u))] : u \in {"urgent", "HIGH"}}

BadContents ==
    {p \o Render(f, st) \o x : p \in Prefixes, x \in Suffixes, st \in Styles, f \in BadFields}

WideContents ==
    ShortTexts \cup ScalarTexts \cup BadContents \cup {g.content : g \in GoodReplies}

GoodSample ==
    "Sure! {\"summary\":\"ok\",\"category\":\"general\",\"urgency\":\"low\",\"language\":\"en\"} thanks"

NarrowContents == {GoodSample, "{\"category\":\"urgent\"}", "no json"}

\* Bodies the backend answers an analyze call with.
AnalyzeDatas(contents) ==
    {Data(Some(Some(c)), Some(5), Some(7), Some(3)) : c \in contents}

\* Bodies the backend answers a chat call with.
ChatDatas ==
    {Data(m, t[1], t[2], t[3]) :
        m \in {None, Some(None), Some(Some("")), Some(Some("hello"))},
        t \in {<<None, None, None>>, <<Some(1), Some(2), Some(3)>>,
               <<Some(5), None, Some(7)>>}}

ChatMessages ==
    {ChatMessage("system", "s"), ChatMessage("user", "u"),
     ChatMessage("assistant", "a"), ChatMessage("tool", "x")}

SeedDict == << <<"seed", "1">> >>

WideChatReqs ==
    {Req("chat", "", "", m, ms, t, o) :
        ms \in SeqsUpTo(ChatMessages, MaxMsgs),
        m \in {None, Some(""), Some("llama3")},
        t \in {Some(DefaultTemperature), None},
        o \in {None, Some(<<>>), Some(SeedDict)}}

NarrowChatReqs ==
    {Req("chat", "", "", None, ms, Some(DefaultTemperature), None) :
        ms \in {<<ChatMessage("user", "u")>>, <<ChatMessage("tool", "x")>>}}

AnalyzeReq(route, text, language, model) ==
    Req(route, text, language, model, <<>>, None, None)

WideAnalyzeReqs ==
    {AnalyzeReq("analyze_get", "hello", l, None) : l \in LangInputs}
    \cup {AnalyzeReq("analyze_post", "hello", l, None) :
            l \in SchemaLanguages \cup {"", "TH", "xx"}}
    \cup {AnalyzeReq(r, t, "en", m) :
            r \in {"analyze_get", "analyze_post"}, t \in {"hello", ""},
            m \in {None, Some(""), Some("llama3")}}

NarrowAnalyzeReqs ==
    {AnalyzeReq("analyze_post", "hello", l, None) : l \in {"multi", "en"}}
    \cup {AnalyzeReq("analyze_get", "hello", l, None) : l \in {"", "xx"}}

ErrorStatuses == {400, 404, 500}

\* ------------------------------------------------------------------------
\* State
\* ------------------------------------------------------------------------
\* pc[s]       idle, waiting (blocked in requests.post) or done
\* req[s]      the request slot s is handling
\* sent[s]     the payloads POSTed to the backend for that request
\* got[s]      what requests.post did
\* locals[s]   _analyze_once's language, raw, json_text, and whether
\*             json.loads returned
\* resp[s]     the response
\* backend     up, down or erroring
\* pick_lang, pick_msg   an argument of _pick_system_msg and its result
VARIABLES pc, req, sent, got, locals, resp, backend, pick_lang, pick_msg

vars == <<pc, req, sent, got, locals, resp, backend, pick_lang, pick_msg>>

BackendStates == {"up", "down", "erroring"}

\* Every worker idle.
Idle ==
    /\ pc = [s \in Slots |-> "idle"]
    /\ req = [s \in Slots |-> NoReq]
    /\ sent = [s \in Slots |-> <<>>]
    /\ got = [s \in Slots |-> NoGot]
    /\ locals = [s \in Slots |-> NoLocals]
    /\ resp = [s \in Slots |-> NoResp]
    /\ backend \in BackendStates

Init ==
    /\ Idle
    /\ pick_lang = ""
    /\ pick_msg = ""

\* A health check that reports whether the backend is up.
HealthProbe ==
    [ok |-> backend = "up", ollama |-> OLLAMA_BASE_URL, default_model |-> DEFAULT_MODEL]

health == [ok |-> TRUE, ollama |-> OLLAMA_BASE_URL, default_model |-> DEFAULT_MODEL]

Finish(s, r, response) ==
    /\ pc' = [pc EXCEPT ![s] = "done"]
    /\ req' = [req EXCEPT ![s] = r]
    /\ resp' = [resp EXCEPT ![s] = response]

\* GET /health
Health(s) ==
    /\ pc[s] = "idle"
    /\ Finish(s, Req("health", "", "", None, <<>>, None, None),
              Resp("health", 200, "", health))
    /\ UNCHANGED <<sent, got, locals, backend, pick_lang, pick_msg>>

\* POST /v1/chat up to the backend call: the body is validated against
\* ChatReq, then the payload is built and POSTed.
Chat(s, reqs) ==
    \E r \in reqs :
        /\ pc[s] = "idle"
        /\ IF \E i \in 1..Len(r.messages) : r.messages[i].role \notin Role
           THEN /\ Finish(s, r, RequestValidationError)
                /\ UNCHANGED sent
           ELSE /\ pc' = [pc EXCEPT ![s] = "waiting"]
                /\ req' = [req EXCEPT ![s] = r]
                /\ sent' = [sent EXCEPT ![s] = Append(@, ChatPayload(r))]
                /\ UNCHANGED resp
        /\ UNCHANGED <<got, locals, backend, pick_lang, pick_msg>>

\* The declared parameters of the two analyze routes: AnalyzeReq's language
\* literal for POST, min_length=1 on text for GET.
AnalyzeSchemaOk(r) ==
    IF r.route = "analyze_post" THEN r.language \in SchemaLanguages
    ELSE Len(r.text) >= 1

\* POST and GET /v1/analyze up to the backend call: the declared parameters,
\* then _analyze_once's language check, payload and POST.
Analyze(s, reqs) ==
    \E r \in reqs :
        /\ pc[s] = "idle"
        /\ IF ~AnalyzeSchemaOk(r)
           THEN /\ Finish(s, r, RequestValidationError)
                /\ UNCHANGED <<sent, locals>>
           ELSE LET language == NormLanguage(r.language)
                IN  IF language \notin AcceptedLanguages
                    THEN /\ Finish(s, r, HTTPException(422, GateDetail, ""))
                         /\ locals' = [locals EXCEPT ![s].language = language]
                         /\ UNCHANGED sent
                    ELSE /\ pc' = [pc EXCEPT ![s] = "waiting"]
                         /\ req' = [req EXCEPT ![s] = r]
                         /\ locals' = [locals EXCEPT ![s].language = language]
                         /\ sent' = [sent EXCEPT ![s] =
                                       Append(@, AnalyzePayload(r.text, language, r.model))]
                         /\ UNCHANGED resp
        /\ UNCHANGED <<got, backend, pick_lang, pick_msg>>

\* _analyze_once and its route after the coercion.
AnalyzeReturn(s, raw, c) ==
    /\ resp' = [resp EXCEPT ![s] = AnalyzeResp(req[s], raw, c)]
    /\ locals' = [locals EXCEPT ![s] = Locals(@.language, raw, c.json_text, c.parsed)]

AnalyzeCoerce(s, raw) == AnalyzeReturn(s, raw, Coerce(raw))

\* The handler after _post_ollama.
AfterPost(s, p) ==
    IF p.raised
    THEN /\ resp' = [resp EXCEPT ![s] = p.resp]
         /\ UNCHANGED locals
    ELSE IF req[s].route = "chat"
    THEN /\ resp' = [resp EXCEPT ![s] = ChatResp(req[s], p.data)]
         /\ UNCHANGED locals
    ELSE AnalyzeCoerce(s, Strip(MessageContent(p.data)))

\* The handler from the return of requests.post to its response.
Resume(s, g) ==
    /\ pc[s] = "waiting"
    /\ pc' = [pc EXCEPT ![s] = "done"]
    /\ got' = [got EXCEPT ![s] = g]
    /\ AfterPost(s, _post_ollama(g))
    /\ UNCHANGED <<req, sent, backend, pick_lang, pick_msg>>

\* requests.post raises: connection refused, or no answer within the timeout.
ConnectionFails(s) ==
    /\ backend = "down"
    /\ \E why \in {"refused", "timeout"} :
          Resume(s, Got("exception", why, 0, FALSE, NoData))

\* The backend answers with an error status.
ErrorStatus(s) ==
    /\ backend = "erroring"
    /\ \E st \in ErrorStatuses : Resume(s, Got("response", "", st, TRUE, NoData))

\* The backend answers 200 with a body that is not JSON: r.json() raises.
BadBody(s) ==
    /\ backend = "up"
    /\ Resume(s, Got("response", "", 200, FALSE, NoData))

\* The backend answers 200 with a JSON body.
Reply(s, chatDatas, analyzeDatas) ==
    /\ backend = "up"
    /\ \E d \in (IF req[s].route = "chat" THEN chatDatas ELSE analyzeDatas) :
          Resume(s, Got("response", "", 200, TRUE, d))

\* The response is delivered and the worker takes the next request.
Return(s) ==
    /\ pc[s] = "done"
    /\ pc' = [pc EXCEPT ![s] = "idle"]
    /\ req' = [req EXCEPT ![s] = NoReq]
    /\ sent' = [sent EXCEPT ![s] = <<>>]
    /\ got' = [got EXCEPT ![s] = NoGot]
    /\ locals' = [locals EXCEPT ![s] = NoLocals]
    /\ resp' = [resp EXCEPT ![s] = NoResp]
    /\ UNCHANGED <<backend, pick_lang, pick_msg>>

\* The backend goes up, down or starts erroring.
BackendChange ==
    /\ \E b \in BackendStates \ {backend} : backend' = b
    /\ UNCHANGED <<pc, req, sent, got, locals, resp, pick_lang, pick_msg>>

\* The service with NumSlots requests in flight.
Next ==
    \/ \E s \in Slots : Health(s)
    \/ \E s \in Slots : Chat(s, NarrowChatReqs)
    \/ \E s \in Slots : Analyze(s, NarrowAnalyzeReqs)
    \/ \E s \in Slots : ConnectionFails(s)
    \/ \E s \in Slots : ErrorStatus(s)
    \/ \E s \in Slots : BadBody(s)
    \/ \E s \in Slots : Reply(s, ChatDatas, AnalyzeDatas(NarrowContents))
    \/ \E s \in Slots : Return(s)
    \/ BackendChange

Spec == Init /\ [][Next]_vars

\* One request at a time, over the wide input sets.
NextOne ==
    \/ Health(1)
    \/ Chat(1, WideChatReqs)
    \/ Analyze(1, WideAnalyzeReqs)
    \/ ConnectionFails(1)
    \/ ErrorStatus(1)
    \/ BadBody(1)
    \/ Reply(1, ChatDatas, AnalyzeDatas(WideContents))
    \/ Return(1)

SpecOne == Init /\ [][NextOne]_vars

\* _pick_system_msg applied to each language code.
InitPick ==
    /\ Idle
    /\ pick_lang \in LangInputs
    /\ pick_msg = ""

Pick ==
    /\ pick_msg = ""
    /\ pick_msg' = _pick_system_msg(pick_lang)
    /\ UNCHANGED <<pc, req, sent, got, locals, resp, backend, pick_lang>>

SpecPick == InitPick /\ [][Pick]_vars

\* ------------------------------------------------------------------------
\* Properties
\* ------------------------------------------------------------------------
AnalyzeRoutes == {"analyze_post", "analyze_get"}

\* Slot s holds an analyze request whose backend call returned a JSON body
\* and whose handler has finished.
AnalyzeDone(s) ==
    /\ pc[s] = "done"
    /\ req[s].route \in AnalyzeRoutes
    /\ got[s].kind = "response" /\ got[s].status = 200 /\ got[s].json

\* The model's reply as the backend sent it.
Content(s) == MessageContent(got[s].data)

HasBrace(t) == \E i \in 1..Len(t) : Ch(t, i) \in {"{", "}"}

\* Texts without braces that are JSON values, and texts that are not JSON.
JsonScalars == {"null", "true", "[1, 2]", "[]", "NaN", "-1.5e3", "\"quoted\"", "1", " 12 "}
NotJson == {"", "Sorry, no.", "[1,]", "\"", "1\n1"}

\* C1 as stated: a reply without any brace is its own candidate and always
\* ends with the 'Model returned invalid JSON' error.
C1_BraceFreeAlwaysInvalidJson ==
    \A s \in Slots :
        AnalyzeDone(s) /\ ~HasBrace(Content(s))
        => /\ locals[s].json_text = locals[s].raw
           /\ resp[s].kind = "error" /\ resp[s].status = 500
           /\ resp[s].detail = "Model returned invalid JSON"

\* C1 amended: a reply without any brace is its own candidate and always
\* ends with an error, never a result: 'Model returned invalid JSON' when the
\* text is not JSON, 'JSON shape mismatch' when it is a JSON value (a number,
\* a string, null, true, a list).
C1_BraceFreeEndsInError ==
    \A s \in Slots :
        AnalyzeDone(s) /\ ~HasBrace(Content(s))
        => /\ locals[s].json_text = locals[s].raw
           /\ resp[s].kind = "error" /\ resp[s].status = 500
           /\ resp[s].detail =
                 IF locals[s].parsed THEN "JSON shape mismatch"
                 ELSE "Model returned invalid JSON"
           /\ Content(s) \in JsonScalars => resp[s].detail = "JSON shape mismatch"
           /\ Content(s) \in NotJson => resp[s].detail = "Model returned invalid JSON"

\* A reply of null: no brace, valid JSON, no AnalyzeResult.
C1_Witness ==
    \E s \in Slots :
        /\ AnalyzeDone(s) /\ Content(s) = "null"
        /\ locals[s].json_text = "null"
        /\ resp[s].detail = "JSON shape mismatch"

\* C2 as stated: every analyze request whose lowercased language is outside
\* th, en, auto is rejected with the 422 error, the empty string included.
C2_EveryOtherLanguageRejected ==
    \A s \in Slots :
        /\ pc[s] # "idle"
        /\ req[s].route \in AnalyzeRoutes
        /\ Lower(req[s].language) \notin {"th", "en", "auto"}
        => pc[s] = "done" /\ resp[s].status = 422

\* C2 amended: every analyze request whose language is not the empty string
\* and whose lowercased language is outside th, en, auto is rejected with the
\* 422 error and no backend call; the empty string reaching _analyze_once is
\* taken as auto and goes on to the backend with the auto-detect prompt.
C2_NonEmptyOtherLanguageRejected ==
    \A s \in Slots :
        pc[s] # "idle" /\ req[s].route \in AnalyzeRoutes
        => /\ req[s].language # "" /\ Lower(req[s].language) \notin {"th", "en", "auto"}
              => /\ pc[s] = "done"
                 /\ resp[s].kind = "error" /\ resp[s].status = 422
                 /\ sent[s] = <<>>
           /\ req[s].language = "" /\ req[s].route = "analyze_get" /\ req[s].text # ""
              => /\ Len(sent[s]) = 1
                 /\ sent[s][1].messages[1].content = SYSTEM_AUTO
                 /\ resp[s].status # 422

\* GET /v1/analyze?language= is past the language check, blocked in the POST.
C2_Witness ==
    \E s \in Slots :
        /\ req[s].route = "analyze_get" /\ req[s].language = ""
        /\ pc[s] = "waiting" /\ Len(sent[s]) = 1

\* C3: POST /v1/analyze with language "multi" passes the request schema and is
\* rejected by _analyze_once's language check with the 422 error before any
\* call to the backend, whatever the backend's state.
C3_MultiRejectedBeforeBackend ==
    \A s \in Slots :
        pc[s] # "idle" /\ req[s].route = "analyze_post" /\ req[s].language = "multi"
        => /\ AnalyzeSchemaOk(req[s])
           /\ pc[s] = "done"
           /\ resp[s].kind = "error" /\ resp[s].status = 422
           /\ resp[s].detail = GateDetail
           /\ sent[s] = <<>>
           /\ got[s].kind = "none"

\* "multi" was rejected while the backend was up.
C3_Witness ==
    \E s \in Slots :
        /\ req[s].route = "analyze_post" /\ req[s].language = "multi"
        /\ pc[s] = "done" /\ resp[s].detail = GateDetail
        /\ backend = "up"

Opens(t) == {i \in 1..Len(t) : Ch(t, i) = "{"}
Closes(t) == {i \in 1..Len(t) : Ch(t, i) = "}"}

\* C4: the candidate is the text from its first "{" to its last "}" when
\* that last "}" comes after the first "{", and the whole text otherwise.
C4_FirstOpenToLastClose ==
    \A s \in Slots :
        AnalyzeDone(s)
        => LET t == locals[s].raw
           IN  locals[s].json_text =
                 IF Opens(t) # {} /\ Closes(t) # {} /\ MaxOf(Closes(t)) > MinOf(Opens(t))
                 THEN SubSeq(t, MinOf(Opens(t)), MaxOf(Closes(t)))
                 ELSE t

\* A text with a "}" before the first "{", and a newline between the braces.
C4_Witness ==
    \E s \in Slots :
        /\ AnalyzeDone(s)
        /\ locals[s].raw = "}{\n}"
        /\ locals[s].json_text = "{\n}"

GoodContents == {g.content : g \in GoodReplies}

\* C5: a reply prefix + J + suffix, J an object with string summary and
\* language, category and urgency among their literals, prefix and suffix
\* without braces, yields the result whose four fields are those of J.
C5_EmbeddedObjectYieldsResult ==
    \A s \in Slots :
        AnalyzeDone(s) /\ Content(s) \in GoodContents
        => \A g \in GoodReplies :
              g.content = Content(s)
              => /\ resp[s].kind = "analyze" /\ resp[s].status = 200
                 /\ resp[s].body.result = g.result

\* The reply 'Sure! {...} thanks' gave summary ok, general, low, en.
C5_Witness ==
    \E s \in Slots :
        /\ AnalyzeDone(s) /\ Content(s) = GoodSample
        /\ resp[s].kind = "analyze"
        /\ resp[s].body.result = AnalyzeResult("ok", "general", "low", "en")

UrgentSample ==
    "{\"summary\":\"ok\",\"category\":\"urgent\",\"urgency\":\"low\",\"language\":\"en\"}"

\* C6: a candidate that parses as JSON but is no AnalyzeResult (a required
\* key missing, a category or urgency outside its literals) ends with the
\* 'JSON shape mismatch' error and no result.
C6_ShapeMismatch ==
    \A s \in Slots :
        AnalyzeDone(s)
        => /\ Content(s) \in BadContents
              => /\ locals[s].parsed
                 /\ resp[s].kind = "error" /\ resp[s].status = 500
                 /\ resp[s].detail = "JSON shape mismatch"
           /\ locals[s].parsed /\ resp[s].kind # "analyze"
              => resp[s].status = 500 /\ resp[s].detail = "JSON shape mismatch"

\* A reply with category "urgent" ended with the shape-mismatch error.
C6_Witness ==
    \E s \in Slots :
        /\ AnalyzeDone(s) /\ Content(s) = UrgentSample
        /\ locals[s].parsed
        /\ resp[s].detail = "JSON shape mismatch"

\* C7: a request that reaches the backend invoker makes exactly one POST; a
\* connection failure or timeout ends it with 502 'unreachable', a status of
\* 400 or more with 502 'error', and no further POST is made for it.
C7_OnePostNoRetry ==
    \A s \in Slots :
        /\ Len(sent[s]) <= 1
        /\ pc[s] = "waiting" => Len(sent[s]) = 1
        /\ pc[s] = "done" /\ got[s].kind # "none" => Len(sent[s]) = 1
        /\ pc[s] = "done" /\ got[s].kind = "exception"
           => /\ resp[s].kind = "error" /\ resp[s].status = 502
              /\ resp[s].detail = "Ollama unreachable"
        /\ pc[s] = "done" /\ got[s].kind = "response" /\ got[s].status >= 400
           => /\ resp[s].kind = "error" /\ resp[s].status = 502
              /\ resp[s].detail = "Ollama error"

\* An analyze call timed out and a chat call got an error status.
C7_Witness ==
    \E s, t \in Slots :
        /\ pc[s] = "done" /\ req[s].route \in AnalyzeRoutes
        /\ got[s].kind = "exception" /\ got[s].why = "timeout"
        /\ resp[s].status = 502 /\ Len(sent[s]) = 1
        /\ pc[t] = "done" /\ req[t].route = "chat"
        /\ got[t].kind = "response" /\ got[t].status >= 400
        /\ resp[t].status = 502 /\ Len(sent[t]) = 1

\* C8: _pick_system_msg returns the Thai prompt for "th", the English prompt
\* for "en" and the auto-detect prompt for every other string, and it
\* returns for every string.
C8_PickTotal ==
    /\ pick_msg = "" => ENABLED Pick
    /\ pick_msg # ""
       => /\ pick_lang = "th" => pick_msg = SYSTEM_THAI
          /\ pick_lang = "en" => pick_msg = SYSTEM_EN
          /\ pick_lang \notin {"th", "en"} => pick_msg = SYSTEM_AUTO

\* "multi" was given the auto-detect prompt.
C8_Witness == pick_lang = "multi" /\ pick_msg = SYSTEM_AUTO

\* C9: a chat request's payload carries its messages in order with the same
\* role and content, stream false and the request's model or else the
\* default; on a 200 JSON answer the reply is the backend's message.content
\* ("" when the answer has none) and the stats are its three counters.
C9_ChatPassthrough ==
    \A s \in Slots :
        /\ req[s].route = "chat" /\ pc[s] # "idle"
        /\ \A i \in 1..Len(req[s].messages) : req[s].messages[i].role \in Role
        => /\ Len(sent[s]) = 1
           /\ Len(sent[s][1].messages) = Len(req[s].messages)
           /\ \A i \in 1..Len(req[s].messages) :
                 /\ sent[s][1].messages[i].role = req[s].messages[i].role
                 /\ sent[s][1].messages[i].content = req[s].messages[i].content
           /\ sent[s][1].stream = FALSE
           /\ sent[s][1].model =
                 IF req[s].model \in {None, Some("")} THEN DEFAULT_MODEL
                 ELSE Val(req[s].model)
           /\ pc[s] = "done" /\ got[s].kind = "response" /\ got[s].status = 200 /\ got[s].json
              => /\ resp[s].kind = "chat" /\ resp[s].status = 200
                 /\ \A c \in {"", "hello"} :
                       got[s].data.message = Some(Some(c)) => resp[s].body.reply = c
                 /\ got[s].data.message \in {None, Some(None)} => resp[s].body.reply = ""
                 /\ resp[s].body.stats.total_duration_ns = got[s].data.total_duration
                 /\ resp[s].body.stats.eval_count = got[s].data.eval_count
                 /\ resp[s].body.stats.prompt_eval_count = got[s].data.prompt_eval_count

\* A system and a user message went out in that order and "hello" came back.
C9_Witness ==
    \E s \in Slots :
        /\ req[s].route = "chat" /\ pc[s] = "done"
        /\ req[s].messages = <<ChatMessage("system", "s"), ChatMessage("user", "u")>>
        /\ Len(sent[s]) = 1
        /\ sent[s][1].messages[1].role = "system"
        /\ resp[s].kind = "chat"
        /\ resp[s].body.reply = "hello"
        /\ resp[s].body.stats.eval_count = Some(2)

\* C10: GET /health answers ok = true in every backend state, interleaved
\* with other requests, without a call to the backend.
C10_HealthAlwaysOk ==
    \A s \in Slots :
        req[s].route = "health"
        => /\ pc[s] = "done"
           /\ resp[s].kind = "health" /\ resp[s].status = 200
           /\ resp[s].body.ok = TRUE
           /\ sent[s] = <<>>
           /\ got[s].kind = "none"

\* Health answered while the backend was down and another request waited.
C10_Witness ==
    \E s, t \in Slots :
        /\ req[s].route = "health" /\ pc[s] = "done" /\ resp[s].body.ok = TRUE
        /\ backend = "down"
        /\ pc[t] = "waiting"
====
